---- MODULE Spec2Model ----
(***************************************************************************)
(* csbench: the create run of src/csbench.go.  main validates the flags,   *)
(* createResources provisions the requested categories one after another,  *)
(* each on a fresh conc result pool bounded by -workers, and               *)
(* generateReport reduces the Results to rows and renders them.            *)
(*                                                                         *)
(* Durations are integers: a Result's Duration is in microseconds, a       *)
(* sample value (rounded to 3 decimals of a second) is in milliseconds.    *)
(***************************************************************************)
EXTENDS Integers, Sequences, FiniteSets, TLC

\* ------------------------------------------------------------------ bounds

\* Most tasks one run submits, over all its pools.
MaxTasks == 2
\* Longest slice a single loop ranges over, where the pool is left out.
MaxCount == 47
\* Longest slice, and largest inner bound, of a nested loop, where the pool
\* is left out.
MaxOuter == 3
MaxInner == 3
\* Most Results of one category, and the longest Duration in ticks, where
\* every sequence of Results is reported.
MaxSample == 4
MaxTicks == 3
\* Largest value of -workers tried.
MaxWorkers == 2
\* Microseconds that pass in one tick of the clock.
TickMicros == 600

\* ------------------------------------------------------------------ inputs

Categories == <<"domain", "limits", "network", "vm", "volume">>

\* The values of -workers tried (the flag's default is 10).
WorkerCounts == 0..MaxWorkers

\* The readings of the clock during one operation.
Instants == {0, 1}

\* The values of -format tried; "xml" stands for every unsupported value.
Formats == {"csv", "tsv", "table", "xml"}

\* The values of -output tried; "" is the flag's default (no file).
OutputFiles == {"", "report.out"}

\* The values of -dbprofile tried.
DbProfiles == {-1, 0}

\* The command lines tried (flag.Parse fills every flag before main reads
\* one).  StartupFlags: every combination of the stage flags, -format,
\* -dbprofile and -output, with -domain alone or no category, one worker.
StartupFlags ==
  [create: BOOLEAN, benchmark: BOOLEAN, tearDown: BOOLEAN,
   domain: BOOLEAN, limits: {FALSE}, network: {FALSE}, vm: {FALSE},
   volume: {FALSE}, workers: {1}, format: Formats,
   outputFile: OutputFiles, dbprofile: DbProfiles]

\* CreateFlags: -create with at most one category, in every combination
\* with -workers, and with two categories and at most one worker.
CreateFlags ==
  {f \in [create: {TRUE}, benchmark: {FALSE}, tearDown: {FALSE},
          domain: BOOLEAN, limits: BOOLEAN, network: BOOLEAN, vm: BOOLEAN,
          volume: BOOLEAN, workers: WorkerCounts, format: {"table"},
          outputFile: {""}, dbprofile: {0}] :
     Cardinality({c \in {"domain", "limits", "network", "vm", "volume"} :
                    f[c]}) <= (IF f.workers <= 1 THEN 2 ELSE 1)}

FlagSets == StartupFlags \cup CreateFlags

VARIABLES
  flags,       \* the parsed command line
  pc,          \* where the main goroutine is
  admin,       \* whether the profiles read hold one named "admin"
  cat,         \* createResources: index in Categories of the next "if *xFlag"
  results,     \* createResources: map[string][]*Result
  items,       \* the slice the running operation ranges over
  per,         \* the bound of its inner loop (1 where there is none)
  i, j,        \* its loop variables (i counts from 0, j from 1)
  progressMarker,
  progress,    \* the numbers of its progress lines, in order
  listed,      \* createVolumes: the VMs vm.ListVMs returned, by err
  submitted,   \* calls of workerPool.Go made on the current pool
  goCalls,     \* calls of workerPool.Go made in this run
  nWorkers,    \* pool: worker goroutines alive (slots of the limiter taken)
  running,     \* pool: the tasks being executed, each on one worker
  closed,      \* pool: Wait has closed the task channel
  panicked,    \* pool: a worker has caught a panic
  agg,         \* pool: the Results aggregated so far
  now,         \* the clock: ticks since the operation's start (time.Since)
  goAt,        \* the clock when the pending call of workerPool.Go was made
  remoteCalls, \* the remote calls made by the task that returned last
  rows,        \* generateReport: the rows appended to the table
  mirror,      \* generateReport: the table's output mirror
  stdout,      \* report lines written to standard output
  file,        \* report lines written to the output file
  errors       \* log.Error lines

vars ==
  <<flags, pc, admin, cat, results, items, per, i, j, progressMarker, listed,
    progress, submitted, goCalls, nWorkers, running, closed, panicked, agg, now,
    goAt, remoteCalls, rows, mirror, stdout, file, errors>>

poolVars == <<nWorkers, running, closed, panicked, agg>>
loopVars == <<items, per, i, j, progressMarker, progress, listed>>
reportVars == <<rows, mirror, stdout, file, errors>>
callVars == <<goAt, remoteCalls>>

\* ------------------------------------------------------------------- main

\* Mutant of FatalAtStartup: the check of -format is missing.
FatalAtStartupNoFormat(f) ==
  \/ ~(f.create \/ f.benchmark \/ f.tearDown)
  \/ (f.create /\ ~(f.domain \/ f.limits \/ f.network \/ f.vm \/ f.volume))
  \/ f.dbprofile < 0

\* main, lines 213-230: the four log.Fatal checks, in order.
FatalAtStartup(f) ==
  \/ ~(f.create \/ f.benchmark \/ f.tearDown)
  \/ (f.create /\ ~(f.domain \/ f.limits \/ f.network \/ f.vm \/ f.volume))
  \/ f.format \notin {"csv", "tsv", "table"}
  \/ f.dbprofile < 0

EmptyMap == [k \in {} |-> <<>>]

\* No VM listing has been made.
NoListing == [ok |-> 0, failed |-> 0]

Init ==
  /\ flags \in FlagSets
  /\ pc = "main"
  /\ admin = FALSE
  /\ cat = 1
  /\ results = EmptyMap
  /\ items = <<>>
  /\ per = 1
  /\ i = 0
  /\ j = 1
  /\ progressMarker = 0
  /\ progress = <<>>
  /\ listed = NoListing
  /\ submitted = 0
  /\ goCalls = 0
  /\ nWorkers = 0
  /\ running = {}
  /\ closed = FALSE
  /\ panicked = FALSE
  /\ agg = <<>>
  /\ now = 0
  /\ goAt = 0
  /\ remoteCalls = <<>>
  /\ rows = <<>>
  /\ mirror = "none"
  /\ stdout = <<>>
  /\ file = <<>>
  /\ errors = <<>>

\* main, lines 213-230: log.Fatal ends the process.
Validate ==
  /\ pc = "main"
  /\ pc' = IF FatalAtStartup(flags) THEN "exited" ELSE "readConfigurations"
  /\ UNCHANGED <<flags, admin, cat, results, loopVars, submitted, goCalls,
                 poolVars, now, callVars, reportVars>>

\* main, lines 238-263: the stage that follows the create stage.
AfterBenchmark == IF flags.tearDown THEN "tearDown" ELSE "done"
AfterCreate == IF flags.benchmark THEN "benchmark" ELSE AfterBenchmark

\* readConfigurations, lines 64-71, and main, line 232: a profile file that
\* cannot be read is fatal; one that can may or may not hold an admin profile.
readConfigurations ==
  /\ pc = "readConfigurations"
  /\ \E readable \in BOOLEAN, hasAdmin \in BOOLEAN :
       /\ pc' = IF ~readable THEN "exited"
                ELSE IF flags.create THEN "createResources" ELSE AfterCreate
       /\ admin' = (readable /\ hasAdmin)
  /\ UNCHANGED <<flags, cat, results, loopVars, submitted, goCalls, poolVars,
                 now, callVars, reportVars>>

\* --------------------------------------------------------- createResources

\* createResources, lines 279-302: the flag that guards category k.
Requested(k) ==
  CASE k = 1 -> flags.domain
    [] k = 2 -> flags.limits
    [] k = 3 -> flags.network
    [] k = 4 -> flags.vm
    [] k = 5 -> flags.volume

\* Mutant of NextCategory: the "if *xFlag" blocks are taken from the last.
NextCategoryFromLast ==
  IF \E k \in cat..5 : Requested(k)
  THEN CHOOSE k \in cat..5 : Requested(k) /\ \A m \in (k + 1)..5 : ~Requested(m)
  ELSE 6

\* createResources, lines 279-302: the next "if *xFlag" at or after cat whose
\* flag is set; 6 when there is none.
NextCategory ==
  IF \E k \in cat..5 : Requested(k)
  THEN CHOOSE k \in cat..5 : Requested(k) /\ \A m \in cat..(k - 1) : ~Requested(m)
  ELSE 6

\* Mutant of ProgressMarker: the quotient is rounded down.
ProgressMarkerFloor(n) == n \div 10

\* Lines 311, 354, 380, 430, 474: int(math.Ceil(float64(n) / 10.0)), n >= 0.
ProgressMarker(n) == (n + 9) \div 10

\* Mutant of Suitable: a Stopped VM is skipped too.
SuitableWhenRunning(item) == item \in {"domain", "account", "subdomain",
                                       "network", "orphan", "Running"}

\* createVolumes, line 482: a VM takes volumes when Running or Stopped.
Suitable(item) == item \notin {"Error"}

\* The index (from 0) of the first element at or after k whose loop body
\* submits a task: createVolumes skips unsuitable VMs (lines 482-485), and an
\* inner loop bounded by 0 (lines 435, 486) submits nothing.  Len(its) when
\* the range is exhausted.
RECURSIVE SkipTo(_, _, _)
SkipTo(its, p, k) ==
  IF k >= Len(its) THEN Len(its)
  ELSE IF p >= 1 /\ Suitable(its[k + 1]) THEN k
  ELSE SkipTo(its, p, k + 1)

\* createVolumes, lines 478-485: unsuitableVmCount once the outer loop has
\* passed the first k elements.
UnsuitableVmCount(its, k) ==
  Cardinality({n \in 1..k : ~Suitable(its[n])})

\* What the listings and the configuration of one operation can be, within
\* the bounds: the elements of the slice are drawn from kinds, and the slice
\* and the inner bound p are small enough for the run to submit at most
\* MaxTasks tasks.
Listings(kinds, p) ==
  {its \in UNION {[1..n -> kinds] : n \in 0..(MaxTasks - goCalls)} :
     Len(its) * p <= MaxTasks - goCalls}

InnerBounds == 0..(MaxTasks - goCalls)

\* Lines 280-302 and the head of each operation (lines 310-313, 346-356,
\* 376-382, 409-432, 461-478): pool.NewWithResults().WithMaxGoroutines(W)
\* panics for W < 1; otherwise the operation starts on a fresh pool, with the
\* slice it ranges over, its inner bound, and its progress interval over n.
Begin(k, its, p, n, vms) ==
  /\ pc = "createResources"
  /\ admin
  /\ NextCategory = k
  /\ cat' = k
  /\ IF flags.workers < 1
     THEN /\ pc' = "crashed"
          /\ UNCHANGED <<loopVars, submitted, poolVars>>
     ELSE /\ pc' = "loop"
          /\ items' = its
          /\ per' = p
          /\ i' = SkipTo(its, p, 0)
          /\ j' = 1
          /\ progressMarker' = ProgressMarker(n)
          /\ progress' = <<>>
          /\ listed' = vms
          /\ submitted' = 0
          /\ nWorkers' = 0
          /\ running' = {}
          /\ closed' = FALSE
          /\ panicked' = FALSE
          /\ agg' = <<>>
  /\ UNCHANGED <<flags, admin, results, goCalls, now, callVars,
                 reportVars>>

\* createDomains, lines 310-317: count = config.NumDomains iterations.
createDomains ==
  \E its \in Listings({"domain"}, 1) : Begin(1, its, 1, Len(its), NoListing)

\* updateLimits, lines 346-360: one iteration per listed account.
updateLimits ==
  \E its \in Listings({"account"}, 1) : Begin(2, its, 1, Len(its), NoListing)

\* createNetwork, lines 376-386: one iteration per listed subdomain.
createNetwork ==
  \E its \in Listings({"subdomain"}, 1) : Begin(3, its, 1, Len(its), NoListing)

\* createVms, lines 409-439: numVmPerNetwork iterations per listed network;
\* "orphan" is a network whose domain has no entry in domainIdAccountMapping
\* (a subdomain whose account listing came back empty).
createVms ==
  \E p \in InnerBounds :
    \E its \in Listings({"network", "orphan"}, p) :
      Begin(4, its, p, Len(its) * p, NoListing)

\* The states of a VM; "Error" stands for every state but Running and Stopped.
VmStates == {"Running", "Stopped", "Error"}

\* What vm.ListVMs can return for one subdomain (line 466): at most n VMs,
\* and whether err is set.
DomainListings(n) ==
  [err : BOOLEAN, vms : UNION {[1..m -> VmStates] : m \in 0..n}]

\* What it can return for the subdomains, within the bounds: there are at
\* most two subdomains, and the VMs returned in all are no more than the
\* tasks the run may still submit.
VmListings ==
  {<<>>}
  \cup {<<a>> : a \in DomainListings(MaxTasks - goCalls)}
  \cup UNION {{<<a, b>> :
                b \in DomainListings(MaxTasks - goCalls - Len(a.vms))} :
              a \in DomainListings(MaxTasks - goCalls)}

RECURSIVE AllVMs(_)
RECURSIVE Returned(_, _)

\* How many VMs the listings with this err returned.
Returned(l, err) ==
  IF l = <<>> THEN 0
  ELSE (IF l[1].err = err THEN Len(l[1].vms) ELSE 0) + Returned(Tail(l), err)

\* Mutant of AllVMs: the continue is missing.
RECURSIVE AllVMsKeepingFailed(_)
AllVMsKeepingFailed(l) ==
  IF l = <<>> THEN <<>> ELSE l[1].vms \o AllVMsKeepingFailed(Tail(l))

\* createVolumes, lines 464-472: allVMs, the VMs of the listings that did
\* not fail.
AllVMs(l) ==
  IF l = <<>> THEN <<>>
  ELSE (IF l[1].err THEN <<>> ELSE l[1].vms) \o AllVMs(Tail(l))

\* createVolumes, lines 461-489: numVolumesPerVM iterations per VM of allVMs
\* in state Running or Stopped.
createVolumes ==
  /\ pc = "createResources"
  /\ admin
  /\ NextCategory = 5
  /\ \E l \in VmListings :
       \E p \in {q \in InnerBounds : Len(AllVMs(l)) * q <= MaxTasks - goCalls} :
         Begin(5, AllVMs(l), p, Len(AllVMs(l)) * p,
               [ok |-> Returned(l, FALSE), failed |-> Returned(l, TRUE)])

\* Mutant of createResourcesReturn: results is returned whatever categories
\* are still to be provisioned.
createResourcesReturnEarly ==
  /\ pc = "createResources"
  /\ pc' = "generateReport"
  /\ UNCHANGED <<flags, admin, cat, results, loopVars, submitted, goCalls,
                 poolVars, now, callVars, reportVars>>

\* createResources, lines 269-307: results is returned once every category
\* has been passed; without an admin profile nil is returned at once.
createResourcesReturn ==
  /\ pc = "createResources"
  /\ ~admin \/ NextCategory = 6
  /\ pc' = "generateReport"
  /\ UNCHANGED <<flags, admin, cat, results, loopVars, submitted, goCalls,
                 poolVars, now, callVars, reportVars>>

\* ------------------------------------------------- submission loop and pool
\* The pool is github.com/sourcegraph/conc/pool: Go hands the task to a
\* worker goroutine over an unbuffered channel, starting a new worker while
\* fewer than W are alive; a worker runs one task at a time and appends its
\* Result to the aggregator; a task that panics ends its worker, and the
\* panic is kept and raised again by Wait; Wait closes the channel, waits for
\* every worker to end and returns the aggregated Results.

\* Mutant of ProgressCount: the single loops count from 0.
ProgressCountFromZero(k, ii, jj) == IF k \in {4, 5} THEN ii * jj + jj ELSE ii

\* Lines 315, 358, 384 (i+1) and 437, 487 (i*j+j): the number tested against
\* progressMarker and logged.
ProgressCount(k, ii, jj) == IF k \in {4, 5} THEN ii * jj + jj ELSE ii + 1

\* Lines 315-317, 358-360, 384-386, 437-439, 487-489: the progress line of
\* one iteration.
LogProgress(k, ii, jj, marker, lines) ==
  IF ProgressCount(k, ii, jj) % marker = 0
  THEN Append(lines, ProgressCount(k, ii, jj))
  ELSE lines

\* One iteration up to its call of workerPool.Go (lines 314-318, 357-362,
\* 383-389, 433-440, 480-491).
Iterate ==
  /\ pc = "loop"
  /\ i < Len(items)
  /\ progress' = LogProgress(cat, i, j, progressMarker, progress)
  /\ goAt' = now
  /\ pc' = "go"
  /\ UNCHANGED <<flags, admin, cat, results, items, per, i, j, progressMarker, listed,
                 submitted, goCalls, poolVars, now, remoteCalls, reportVars>>

\* Mutant of BelowLimit: the limit is off by one.
BelowLimitOffByOne(alive, w) == alive <= w

\* WithMaxGoroutines(*workers), lines 280, 285, 290, 295, 300: whether Go may
\* start one more worker goroutine.
BelowLimit(alive, w) == alive < w

Idle == nWorkers - Cardinality(running)

\* workerPool.Go, first half: below the limit, a new worker is started.
GoSpawn ==
  /\ pc = "go"
  /\ BelowLimit(nWorkers, flags.workers)
  /\ nWorkers' = nWorkers + 1
  /\ pc' = "send"
  /\ UNCHANGED <<flags, admin, cat, results, loopVars, submitted, goCalls,
                 running, closed, panicked, agg, now, callVars,
                 reportVars>>

\* Mutant of Task: the closure shares the loop variables with the loop and
\* reads them once the range is exhausted.
TaskSharingLoopVariables(id, k, item, start) ==
  [id |-> id, index |-> Len(items) - 1, item |-> items[Len(items)],
   taskStart |-> start]

\* Mutant of Task: the clock is read where workerPool.Go is called, not
\* inside the closure.
TaskTimedFromGo(id, k, item, start) ==
  [id |-> id, index |-> k, item |-> item, taskStart |-> goAt]

\* The closure built by the iteration: the copies of the loop variables it
\* captured (lines 361, 387-388, 434, 481: index k and element item) and,
\* once a worker runs it, its taskStart (lines 319, 363, 390, 441, 492).
Task(id, k, item, start) ==
  [id |-> id, index |-> k, item |-> item, taskStart |-> start]

\* The task as the pool holds it, with the instant workerPool.Go was called
\* for it and the instant a worker received it.
Handed(t, called, received) ==
  [id |-> t.id, index |-> t.index, item |-> t.item, taskStart |-> t.taskStart,
   called |-> called, received |-> received]

\* workerPool.Go, second half: an idle worker receives the task and starts
\* it; Go returns and the loop goes on to its next iteration.
GoSend ==
  /\ pc \in {"go", "send"}
  /\ Idle > 0
  /\ running' =
       running \cup {Handed(Task(goCalls + 1, i, items[i + 1], now), goAt, now)}
  /\ goAt' = 0
  /\ submitted' = submitted + 1
  /\ goCalls' = goCalls + 1
  /\ IF j < per
     THEN j' = j + 1 /\ i' = i
     ELSE j' = 1 /\ i' = SkipTo(items, per, i + 1)
  /\ pc' = "loop"
  /\ UNCHANGED <<flags, admin, cat, results, items, per, progressMarker, listed,
                 progress, nWorkers, closed, panicked, agg, now, remoteCalls,
                 reportVars>>

\* domain.UpdateLimits, line 635: for i := 0; i <= 11; i++, one
\* UpdateResourceLimit per resource type.
ResourceTypes == 12

\* The remote calls one task of category k makes, at most.
Steps(k) == IF k \in {1, 5} THEN 2 ELSE IF k = 2 THEN ResourceTypes ELSE 1

\* The remote calls of category k, in the order a task makes them (lines 320
\* and 327, 640, 391, 442, 493 and 500).
StepNames(k) ==
  CASE k = 1 -> <<"CreateDomain", "CreateAccount">>
    [] k = 2 -> [n \in 1..ResourceTypes |-> <<"UpdateResourceLimit", n - 1>>]
    [] k = 3 -> <<"CreateNetwork">>
    [] k = 4 -> <<"DeployVm">>
    [] k = 5 -> <<"CreateVolume", "AttachVolume">>

\* What the remote side answers to the calls of one task: remote[n] is
\* whether call n succeeds.  The answers after the first failure are never
\* asked for, so one function stands for all that agree up to it.
Answers(k) ==
  {[n \in 1..Steps(k) |-> n < f] : f \in 1..(Steps(k) + 1)}

\* Mutant of TaskSuccess: only the first remote call decides.
TaskSuccessFirstCall(k, remote) == remote[1]

\* Lines 320-338, 364-366 with 635-646, 391-401, 442-452, 493-510: Success
\* of the Result, from whether each remote call of the task succeeds.
TaskSuccess(k, remote) ==
  IF k \in {1, 5}
  THEN IF ~remote[1] THEN FALSE ELSE IF ~remote[2] THEN FALSE ELSE TRUE
  ELSE IF k = 2 THEN \A n \in 1..ResourceTypes : remote[n]
  ELSE remote[1]

\* The remote calls the task makes, each with its answer: a call is made
\* when every call before it succeeded (the early returns of lines 321-326,
\* 641-644, 494-499).
RECURSIVE RemoteCalls(_, _, _)
RemoteCalls(k, remote, n) ==
  IF n > Steps(k) THEN <<>>
  ELSE <<[name |-> StepNames(k)[n], ok |-> remote[n]]>> \o
       (IF remote[n] THEN RemoteCalls(k, remote, n + 1) ELSE <<>>)

\* createVms, line 442: domainIdAccountMapping[network.Domainid].Name is a
\* nil dereference when the mapping has no account for the domain.
Panics(k, item) == k = 4 /\ item = "orphan"

\* Lines 322-337, 365-368, 393-400, 444-451, 495-509: the Result a task
\* returns, with time.Since(taskStart).
Result(t, success, end) ==
  [task |-> t.id, Success |-> success,
   Duration |-> (end - t.taskStart) * TickMicros]

\* A task returns: its worker adds the Result to the aggregator and waits
\* for a next task.
TaskReturn ==
  /\ \E t \in running :
       /\ ~Panics(cat, t.item)
       /\ \E remote \in Answers(cat) :
            /\ agg' = Append(agg, Result(t, TaskSuccess(cat, remote), now))
            /\ remoteCalls' = RemoteCalls(cat, remote, 1)
       /\ running' = running \ {t}
  /\ UNCHANGED <<flags, pc, admin, cat, results, loopVars, submitted, goCalls,
                 nWorkers, closed, panicked, now, goAt, reportVars>>

\* A task panics: no Result is added, the worker ends (freeing its slot) and
\* the pool keeps the panic.
TaskPanic ==
  /\ \E t \in running :
       /\ Panics(cat, t.item)
       /\ running' = running \ {t}
  /\ nWorkers' = nWorkers - 1
  /\ panicked' = TRUE
  /\ UNCHANGED <<flags, pc, admin, cat, results, loopVars, submitted, goCalls,
                 closed, agg, now, callVars, reportVars>>

\* Time passes while a task runs.
Tick ==
  /\ running # {}
  /\ now + 1 \in Instants
  /\ now' = now + 1
  /\ UNCHANGED <<flags, pc, admin, cat, results, loopVars, submitted, goCalls,
                 poolVars, callVars, reportVars>>

\* res := workerPool.Wait() (lines 341, 371, 404, 456, 517), the call: the
\* task channel is closed.
Wait ==
  /\ pc = "loop"
  /\ i = Len(items)
  /\ closed' = TRUE
  /\ pc' = "wait"
  /\ UNCHANGED <<flags, admin, cat, results, loopVars, submitted, goCalls,
                 nWorkers, running, panicked, agg, now, callVars,
                 reportVars>>

\* An idle worker finds the channel closed and ends.
WorkerExit ==
  /\ closed
  /\ Idle > 0
  /\ nWorkers' = nWorkers - 1
  /\ UNCHANGED <<flags, pc, admin, cat, results, loopVars, submitted, goCalls,
                 running, closed, panicked, agg, now, callVars,
                 reportVars>>

\* Mutant of Drained: Wait does not wait for the workers.
DrainedAtOnce(alive) == TRUE

\* Wait may end once every worker has ended.
Drained(alive) == alive = 0

\* createResources, lines 281, 286, 291, 296, 301: results[key] = res.
Store(map, key, res) ==
  [c \in DOMAIN map \cup {key} |-> IF c = key THEN res ELSE map[c]]

\* workerPool.Wait returns the aggregated Results, which the operation
\* returns and createResources stores under the category (the operation's
\* locals and its pool are dropped); or Wait raises the panic a task left,
\* which nothing recovers: the process dies.
WaitReturn ==
  /\ pc = "wait"
  /\ Drained(nWorkers)
  /\ IF panicked
     THEN /\ pc' = "crashed"
          /\ UNCHANGED <<cat, results, loopVars, poolVars, now, callVars>>
     ELSE /\ pc' = "createResources"
          /\ results' = Store(results, Categories[cat], agg)
          /\ cat' = cat + 1
          /\ items' = <<>>
          /\ per' = 1
          /\ i' = 0
          /\ j' = 1
          /\ progressMarker' = 0
          /\ progress' = <<>>
          /\ listed' = NoListing
          /\ nWorkers' = 0
          /\ running' = {}
          /\ closed' = FALSE
          /\ panicked' = FALSE
          /\ agg' = <<>>
          /\ now' = 0
          /\ goAt' = 0
          /\ remoteCalls' = <<>>
  /\ UNCHANGED <<flags, admin, submitted, goCalls, reportVars>>

\* ---------------------------------------------------------- generateReport

\* math.Round(x*1000) / 1000 of a duration of d microseconds, d >= 0, in
\* milliseconds (lines 114, 128-140).
RoundMillis(d) == (d + 500) \div 1000

\* math.Round of the quotient num / den of milliseconds, num >= 0, den > 0:
\* halves are rounded away from zero.
RoundDiv(num, den) == (2 * num + den) \div (2 * den)

\* math.NaN(): what montanaflynn/stats returns, with an error main ignores,
\* for an empty sample.
NaN == -1

\* Mutant of getSamples: the else is missing, so every duration is also
\* appended to the failed sample.
RECURSIVE getSamplesNoElse(_)
getSamplesNoElse(res) ==
  IF res = <<>>
  THEN [all |-> <<>>, successful |-> <<>>, failed |-> <<>>]
  ELSE LET rest == getSamplesNoElse(SubSeq(res, 1, Len(res) - 1))
           result == res[Len(res)]
           duration == RoundMillis(result.Duration)
       IN  [all |-> Append(rest.all, duration),
            successful |-> IF result.Success
                           THEN Append(rest.successful, duration)
                           ELSE rest.successful,
            failed |-> Append(rest.failed, duration)]

\* getSamples, lines 108-124.
RECURSIVE getSamples(_)
getSamples(res) ==
  IF res = <<>>
  THEN [all |-> <<>>, successful |-> <<>>, failed |-> <<>>]
  ELSE LET rest == getSamples(SubSeq(res, 1, Len(res) - 1))
           result == res[Len(res)]
           duration == RoundMillis(result.Duration)
       IN  [all |-> Append(rest.all, duration),
            successful |-> IF result.Success
                           THEN Append(rest.successful, duration)
                           ELSE rest.successful,
            failed |-> IF result.Success
                       THEN rest.failed
                       ELSE Append(rest.failed, duration)]

RECURSIVE Sum(_)
Sum(sample) ==
  IF sample = <<>> THEN 0 ELSE sample[1] + Sum(Tail(sample))

\* stats: sortedCopy.
RECURSIVE SortedCopy(_)
SortedCopy(sample) ==
  IF sample = <<>> THEN <<>>
  ELSE LET m == CHOOSE n \in 1..Len(sample) :
                  \A o \in 1..Len(sample) : sample[n] <= sample[o]
       IN  <<sample[m]>> \o
           SortedCopy(SubSeq(sample, 1, m - 1) \o
                      SubSeq(sample, m + 1, Len(sample)))

\* stats.Float64Data.Min, .Max, .Mean, .Median, each rounded (lines 127-134).
Min(sample) ==
  IF sample = <<>> THEN NaN ELSE SortedCopy(sample)[1]
Max(sample) ==
  IF sample = <<>> THEN NaN ELSE SortedCopy(sample)[Len(sample)]
Mean(sample) ==
  IF sample = <<>> THEN NaN ELSE RoundDiv(Sum(sample), Len(sample))
Median(sample) ==
  LET c == SortedCopy(sample)
      l == Len(c)
  IN  IF l = 0 THEN NaN
      ELSE IF l % 2 = 0 THEN RoundDiv(c[l \div 2] + c[l \div 2 + 1], 2)
      ELSE c[l \div 2 + 1]

\* Mutant of Percentile: the sample is read as given, not its sorted copy.
PercentileUnsorted(sample, percent) ==
  LET c == sample
      l == Len(c)
      whole == (percent * l) % 100 = 0
      idx == (percent * l) \div 100
  IN  IF l = 0 THEN NaN
      ELSE IF l = 1 THEN c[1]
      ELSE IF whole THEN c[idx]
      ELSE IF percent * l > 100 THEN RoundDiv(c[idx] + c[idx + 1], 2)
      ELSE NaN

\* stats.Float64Data.Percentile, rounded (lines 135-140): index is
\* percent/100 * length; a whole index takes c[index-1], any other index
\* above 1 the mean of c[int(index)-1] and c[int(index)].
Percentile(sample, percent) ==
  LET c == SortedCopy(sample)
      l == Len(c)
      whole == (percent * l) % 100 = 0
      idx == (percent * l) \div 100
  IN  IF l = 0 THEN NaN
      ELSE IF l = 1 THEN c[1]
      ELSE IF whole THEN c[idx]
      ELSE IF percent * l > 100 THEN RoundDiv(c[idx] + c[idx + 1], 2)
      ELSE NaN

\* getRowFromSample, lines 126-143.
getRowFromSample(key, sample) ==
  [Type |-> key, Count |-> Len(sample), Min |-> Min(sample),
   Max |-> Max(sample), Avg |-> Mean(sample), Median |-> Median(sample),
   P90 |-> Percentile(sample, 90), P95 |-> Percentile(sample, 95),
   P99 |-> Percentile(sample, 99)]

\* fmt.Sprintf("%s - All", key) and the like, lines 166-170.
Label(key, kind) == <<key, kind>>

\* Mutant of SplitRows: the successful sample is tested instead.
SplitRowsOnSuccess(samples) == Len(samples.successful) # 0

\* generateReport, line 168: whether the Successful and Failed rows follow.
SplitRows(samples) == Len(samples.failed) # 0

\* generateReport, lines 165-171: the rows one category appends.
CategoryRows(key, res) ==
  LET samples == getSamples(res)
  IN  <<getRowFromSample(Label(key, "All"), samples.all)>> \o
      IF SplitRows(samples)
      THEN <<getRowFromSample(Label(key, "Successful"), samples.successful),
             getRowFromSample(Label(key, "Failed"), samples.failed)>>
      ELSE <<>>

\* generateReport, lines 164-172: the rows appended when the map is ranged
\* over in the order keys.
RECURSIVE ReportRows(_, _)
ReportRows(map, keys) ==
  IF keys = <<>> THEN <<>>
  ELSE CategoryRows(keys[1], map[keys[1]]) \o ReportRows(map, Tail(keys))

\* The orders in which "for key, result := range results" (line 164) can
\* visit the keys: Go leaves the iteration order of a map unspecified.
RangeOrders(map) ==
  {keys \in [1..Cardinality(DOMAIN map) -> DOMAIN map] :
     \A m, n \in 1..Len(keys) : m # n => keys[m] # keys[n]}

\* generateReport, lines 160-172: the table is built, mirrored to os.Stdout.
generateReport ==
  /\ pc = "generateReport"
  /\ \E keys \in RangeOrders(results) : rows' = ReportRows(results, keys)
  /\ mirror' = "stdout"
  /\ pc' = "render"
  /\ UNCHANGED <<flags, admin, cat, results, loopVars, submitted, goCalls,
                 poolVars, now, callVars, stdout, file, errors>>

\* generateReport, lines 174-181: the mirror the table is rendered to when
\* -output is path and os.Create succeeds (created) or fails.  On failure f
\* is a nil *os.File and is still made the mirror.
OutputMirror(old, path, created) ==
  IF path # "" THEN (IF created THEN "file" ELSE "nilfile") ELSE old

\* table.Render, RenderCSV, RenderTSV (lines 182-189): the text rendered.
Rendered(format, table) ==
  IF format \in {"csv", "tsv", "table"}
  THEN <<[format |-> format, rows |-> table]>>
  ELSE <<>>

\* go-pretty writes the rendered text to the output mirror, the only writer
\* the table has; writing to a nil *os.File fails with ErrInvalid, which is
\* ignored.
WrittenTo(target, to, text) == IF to = target THEN text ELSE <<>>

\* generateReport, lines 174-190.
Render ==
  /\ pc = "render"
  /\ \E created \in BOOLEAN :
       /\ flags.outputFile = "" => created
       /\ mirror' = OutputMirror(mirror, flags.outputFile, created)
       /\ errors' = IF flags.outputFile # "" /\ ~created
                    THEN Append(errors, "Error creating file: ")
                    ELSE errors
  /\ stdout' = stdout \o WrittenTo("stdout", mirror', Rendered(flags.format, rows))
  /\ file' = file \o WrittenTo("file", mirror', Rendered(flags.format, rows))
  /\ pc' = AfterCreate
  /\ UNCHANGED <<flags, admin, cat, results, loopVars, submitted, goCalls,
                 poolVars, now, callVars, rows>>

\* main, lines 243-259: the list-API benchmark, which submits to no pool.
Benchmark ==
  /\ pc = "benchmark"
  /\ pc' = AfterBenchmark
  /\ UNCHANGED <<flags, admin, cat, results, loopVars, submitted, goCalls,
                 poolVars, now, callVars, reportVars>>

\* main, lines 261-263, and tearDownEnv, lines 522-538.
tearDownEnv ==
  /\ pc = "tearDown"
  /\ pc' = "done"
  /\ UNCHANGED <<flags, admin, cat, results, loopVars, submitted, goCalls,
                 poolVars, now, callVars, reportVars>>

\* ---------------------------------------------------------- specification

Next ==
  \/ Validate
  \/ readConfigurations
  \/ createDomains
  \/ updateLimits
  \/ createNetwork
  \/ createVms
  \/ createVolumes
  \/ createResourcesReturn
  \/ Iterate
  \/ GoSpawn
  \/ GoSend
  \/ TaskReturn
  \/ TaskPanic
  \/ Tick
  \/ Wait
  \/ WorkerExit
  \/ WaitReturn
  \/ generateReport
  \/ Render
  \/ Benchmark
  \/ tearDownEnv

Spec == Init /\ [][Next]_vars

\* -------------------------------------------- the submission loops alone
\* The loops of the five operations over longer slices than a run with its
\* pool can be explored for: workerPool.Go is taken to return at once, and
\* the tasks are left out.

\* The slices one operation can range over and its inner bound: the state
\* Begin leaves.
LoopInputs(k) ==
  CASE k \in {1, 2, 3} ->
         {<<[n \in 1..len |-> Categories[k]], 1>> : len \in 0..MaxCount}
    [] k = 4 ->
         {<<its, p>> : its \in UNION {[1..n -> {"network"}] : n \in 0..MaxOuter},
                       p \in 0..MaxInner}
    [] k = 5 ->
         {<<its, p>> :
            its \in UNION {[1..n -> {"Running", "Error"}] : n \in 0..MaxOuter},
            p \in 0..MaxInner}

LoopInit ==
  /\ flags \in {f \in CreateFlags :
                  /\ f.workers = 1
                  /\ Cardinality({c \in {"domain", "limits", "network", "vm",
                                          "volume"} : f[c]}) = 1}
  /\ pc = "loop"
  /\ admin = TRUE
  /\ cat = CHOOSE k \in 1..5 : Requested(k)
  /\ results = EmptyMap
  /\ \E in \in LoopInputs(cat) :
       /\ items = in[1]
       /\ per = in[2]
       /\ i = SkipTo(in[1], in[2], 0)
       /\ progressMarker = ProgressMarker(Len(in[1]) * in[2])
  /\ j = 1
  /\ progress = <<>>
  /\ listed = [ok |-> IF cat = 5 THEN Len(items) ELSE 0, failed |-> 0]
  /\ submitted = 0
  /\ goCalls = 0
  /\ nWorkers = 0
  /\ running = {}
  /\ closed = FALSE
  /\ panicked = FALSE
  /\ agg = <<>>
  /\ now = 0
  /\ goAt = 0
  /\ remoteCalls = <<>>
  /\ rows = <<>>
  /\ mirror = "none"
  /\ stdout = <<>>
  /\ file = <<>>
  /\ errors = <<>>

\* One iteration (lines 314-340, 357-370, 383-403, 433-455, 480-513): its
\* progress line, its call of workerPool.Go, and the step to the next
\* iteration that submits.
Submit ==
  /\ pc = "loop"
  /\ i < Len(items)
  /\ progress' = LogProgress(cat, i, j, progressMarker, progress)
  /\ submitted' = submitted + 1
  /\ goCalls' = goCalls + 1
  /\ IF j < per
     THEN j' = j + 1 /\ i' = i
     ELSE j' = 1 /\ i' = SkipTo(items, per, i + 1)
  /\ UNCHANGED <<flags, pc, admin, cat, results, items, per, progressMarker, listed,
                 poolVars, now, callVars, reportVars>>

LoopNext ==
  \/ Submit
  \/ Wait

LoopSpec == LoopInit /\ [][LoopNext]_vars

\* ------------------------------------------------- generateReport alone
\* generateReport over the Results of one category, for longer slices of
\* Results than a run with its pool can be explored for.

Durations == {n * TickMicros : n \in 0..MaxTicks}

\* Lengths beyond 10 at which the index of a percentile is whole: 20 (p90
\* and p95) and 100 (all three).
WholeIndexLengths == {20, 100}

\* The Results a pool returns for the tasks 1..Len(outcomes).
ResultsOf(outcomes) ==
  [n \in 1..Len(outcomes) |->
     [task |-> n, Success |-> outcomes[n][1], Duration |-> outcomes[n][2]]]

\* Every sequence of at most longest Results; every sequence of 10
\* successes lasting no time or MaxTicks; and, of the lengths in
\* WholeIndexLengths, the successes of which the first k last MaxTicks and
\* the others no time.
ResultSlices(longest) ==
  {ResultsOf(o) :
     o \in UNION {[1..n -> BOOLEAN \X Durations] : n \in 0..longest}}
  \cup {ResultsOf(o) : o \in [1..10 -> {TRUE} \X {0, MaxTicks * TickMicros}]}
  \cup UNION {{ResultsOf([n \in 1..len |->
                            <<TRUE, IF n <= k THEN MaxTicks * TickMicros
                                    ELSE 0>>]) : k \in 0..len} :
                len \in WholeIndexLengths}

ReportInit ==
  /\ flags \in {f \in CreateFlags :
                  /\ f.workers = 1
                  /\ f.domain
                  /\ ~(f.limits \/ f.network \/ f.vm \/ f.volume)}
  /\ pc = "generateReport"
  /\ admin = TRUE
  /\ cat = 2
  /\ \E res \in ResultSlices(MaxSample) :
       /\ results = Store(EmptyMap, "domain", res)
       /\ submitted = Len(res)
       /\ goCalls = Len(res)
  /\ items = <<>>
  /\ per = 1
  /\ i = 0
  /\ j = 1
  /\ progressMarker = 0
  /\ progress = <<>>
  /\ listed = NoListing
  /\ nWorkers = 0
  /\ running = {}
  /\ closed = FALSE
  /\ panicked = FALSE
  /\ agg = <<>>
  /\ now = 0
  /\ goAt = 0
  /\ remoteCalls = <<>>
  /\ rows = <<>>
  /\ mirror = "none"
  /\ stdout = <<>>
  /\ file = <<>>
  /\ errors = <<>>

ReportNext ==
  \/ generateReport
  \/ Render

ReportSpec == ReportInit /\ [][ReportNext]_vars

\* ------------------------------------------------------------ properties

\* The tasks submitted to the current pool.
PoolTaskIds == (goCalls - submitted + 1)..goCalls

\* The Results in res that task id produced.
OutcomesOf(res, id) == Cardinality({n \in 1..Len(res) : res[n].task = id})

IsRunning(id) == \E t \in running : t.id = id

\* A pool is in use: between its first iteration and the end of its Wait.
InPool == pc \in {"loop", "go", "send", "wait"} \/ (pc = "crashed" /\ closed)

\* The Wait of the pool of category cat - 1 has just returned.
WaitReturned == pc = "createResources" /\ cat > 1

\* C1: every task submitted to a pool yields exactly one Outcome, none
\* dropped and none duplicated: a submitted task is either still executing
\* or has exactly one Result in the pool, and the slice Wait returns holds
\* exactly one Result for each of the N tasks submitted.
C1_ExactlyOneOutcomePerTask ==
  /\ InPool =>
       /\ \A id \in PoolTaskIds :
            OutcomesOf(agg, id) = (IF IsRunning(id) THEN 0 ELSE 1)
       /\ Len(agg) + Cardinality(running) = submitted
  /\ WaitReturned =>
       /\ Len(results[Categories[cat - 1]]) = submitted
       /\ \A id \in PoolTaskIds :
            OutcomesOf(results[Categories[cat - 1]], id) = 1

\* C2: a panic inside a task does not crash the run: once a task has
\* panicked the process is still not dead, so Wait can return normally.
C2_PanicDoesNotCrashRun == panicked => pc # "crashed"

\* C3: the tasks executing never number more than the -workers ceiling W,
\* and while W tasks execute a call of Go can neither start a worker nor
\* hand its task over.
C3_ConcurrencyCeiling ==
  /\ Cardinality(running) <= flags.workers
  /\ nWorkers <= flags.workers
  /\ (pc \in {"go", "send"} /\ Cardinality(running) = flags.workers) =>
       (~ENABLED GoSpawn /\ ~ENABLED GoSend)

\* C3 witness: W tasks execute while a further submission is held in Go.
C3_Witness ==
  /\ pc = "go"
  /\ flags.workers >= 1
  /\ Cardinality(running) = flags.workers

\* C4: in the step in which Wait returns no submitted task is executing,
\* and every task submitted to the pool has its Outcome in the slice
\* returned.
C4_WaitReturnsAfterAllTasks ==
  [][(pc = "wait" /\ pc' = "createResources") =>
       /\ running = {}
       /\ nWorkers = 0
       /\ \A id \in PoolTaskIds :
            OutcomesOf(results'[Categories[cat]], id) >= 1]_vars

\* C4 witness: a Wait has returned for a pool that was given two tasks.
C4_Witness == WaitReturned /\ submitted >= 2

\* The entries of sample equal to v.
Occurrences(sample, v) ==
  Cardinality({n \in 1..Len(sample) : sample[n] = v})

\* The Results of res with the given flag whose rounded duration is v.
OutcomesWith(res, success, v) ==
  Cardinality({n \in 1..Len(res) :
                 res[n].Success = success /\ RoundMillis(res[n].Duration) = v})

\* The three samples of res partition its rounded durations by Success.
SamplesPartition(res) ==
  LET samples == getSamples(res)
      values == {RoundMillis(res[n].Duration) : n \in 1..Len(res)}
                  \cup {samples.all[n] : n \in 1..Len(samples.all)}
                  \cup {samples.successful[n] : n \in 1..Len(samples.successful)}
                  \cup {samples.failed[n] : n \in 1..Len(samples.failed)}
  IN  /\ Len(samples.all) = Len(samples.successful) + Len(samples.failed)
      /\ Len(samples.all) = Len(res)
      /\ \A v \in values :
           /\ Occurrences(samples.successful, v) = OutcomesWith(res, TRUE, v)
           /\ Occurrences(samples.failed, v) = OutcomesWith(res, FALSE, v)
           /\ Occurrences(samples.all, v)
                = OutcomesWith(res, TRUE, v) + OutcomesWith(res, FALSE, v)

\* C5: for every sequence of Outcomes (those of each category of the results
\* and those a pool has aggregated so far) getSamples gives
\* len(all) = len(successful) + len(failed), and every Outcome's rounded
\* duration is in the all-sample and in exactly one of the other two, the one
\* its Success flag names.
C5_SamplesPartitionOutcomes ==
  /\ SamplesPartition(agg)
  /\ \A key \in DOMAIN results : SamplesPartition(results[key])

\* C5 witness: the report has been built from a category that holds a
\* successful and a failed Outcome.
C5_Witness ==
  /\ pc = "render"
  /\ \E key \in DOMAIN results :
       /\ \E n \in 1..Len(results[key]) : results[key][n].Success
       /\ \E n \in 1..Len(results[key]) : ~results[key][n].Success

\* generateReport has built the table.
TableBuilt == mirror # "none"

\* The rows of the table labelled <<key, kind>>.
RowsLabelled(key, kind) ==
  Cardinality({n \in 1..Len(rows) : rows[n].Type = <<key, kind>>})

HasFailure(res) == \E n \in 1..Len(res) : ~res[n].Success

\* C6: for every category of the results the table holds exactly one All
\* row, and one Successful and one Failed row exactly when some Outcome of
\* the category failed (none of either otherwise); it holds no other row.
C6_RowsPerCategory ==
  TableBuilt =>
    /\ \A key \in DOMAIN results :
         /\ RowsLabelled(key, "All") = 1
         /\ RowsLabelled(key, "Successful")
              = (IF HasFailure(results[key]) THEN 1 ELSE 0)
         /\ RowsLabelled(key, "Failed")
              = (IF HasFailure(results[key]) THEN 1 ELSE 0)
    /\ \A n \in 1..Len(rows) :
         /\ rows[n].Type[1] \in DOMAIN results
         /\ rows[n].Type[2] \in {"All", "Successful", "Failed"}

\* C6 witness: a table built from one category whose Outcomes all succeeded
\* (one row) and one category with a failure (three rows).
C6_Witness ==
  /\ TableBuilt
  /\ Len(rows) = 4
  /\ \E key \in DOMAIN results :
       results[key] # <<>> /\ ~HasFailure(results[key])
  /\ \E key \in DOMAIN results : HasFailure(results[key])

\* C7: getRowFromSample is never applied to an empty sample: no row of the
\* table was reduced from zero values.
C7_NoRowFromEmptySample ==
  \A n \in 1..Len(rows) : rows[n].Count > 0

\* The report has been rendered.
ReportRendered == TableBuilt /\ pc # "render"

\* C8: a rendered report is on standard output whether or not -output is
\* given; when the file was created the report is in the file as well.
C8_ReportAlwaysOnStdout ==
  (ReportRendered /\ mirror # "nilfile") =>
    /\ stdout = Rendered(flags.format, rows)
    /\ (flags.outputFile # "" => file = Rendered(flags.format, rows))

\* C9: when -output is given and the file cannot be created, the error is
\* logged and the complete report is still rendered to standard output.
C9_CreateFailureDegradesToStdout ==
  (ReportRendered /\ flags.outputFile # "" /\ mirror # "file") =>
    /\ errors # <<>>
    /\ pc \in {"benchmark", "tearDown", "done"}
    /\ stdout = Rendered(flags.format, rows)

\* The configuration errors of the command line f.
ConfigError(f) ==
  \/ f.format # "csv" /\ f.format # "tsv" /\ f.format # "table"
  \/ f.dbprofile < 0
  \/ (~f.create /\ ~f.benchmark /\ ~f.tearDown)
  \/ (f.create /\ ~f.domain /\ ~f.limits /\ ~f.network /\ ~f.vm /\ ~f.volume)

\* C10: a run whose command line has a configuration error goes from
\* startup to its exit only: no task is submitted to a pool, no category is
\* provisioned, no table is built and no report is written.
C10_ConfigErrorEndsAtStartup ==
  ConfigError(flags) =>
    /\ pc \in {"main", "exited"}
    /\ goCalls = 0
    /\ nWorkers = 0
    /\ results = EmptyMap
    /\ ~TableBuilt
    /\ stdout = <<>>
    /\ file = <<>>

\* C10 witness: a run asked to create domains in an unsupported format has
\* exited.
C10_Witness ==
  /\ pc = "exited"
  /\ flags.create /\ flags.domain
  /\ flags.format = "xml"
  /\ flags.dbprofile >= 0

\* The phase of the run: Idle until the first pool is made, Submitting in
\* a submission loop, Draining from the call of Wait until the next loop or
\* the return of createResources, Aggregating in generateReport until the
\* table is rendered, Rendered after; Dead once the process has ended by
\* log.Fatal or a panic.
Phase ==
  CASE pc \in {"exited", "crashed"} -> "Dead"
    [] pc \in {"main", "readConfigurations"} -> "Idle"
    [] pc = "createResources" -> IF cat = 1 THEN "Idle" ELSE "Draining"
    [] pc \in {"loop", "go", "send"} -> "Submitting"
    [] pc = "wait" -> "Draining"
    [] pc \in {"generateReport", "render"} -> "Aggregating"
    [] OTHER -> IF mirror # "none" THEN "Rendered" ELSE "Idle"

PhaseRank(ph) ==
  CASE ph = "Idle" -> 0
    [] ph = "Submitting" -> 1
    [] ph = "Draining" -> 2
    [] ph = "Aggregating" -> 3
    [] ph = "Rendered" -> 4
    [] OTHER -> 5

\* Aggregation has only what every pool of the run returned: no task is
\* executing, no worker is alive, and with an admin profile every requested
\* category is in the results.
AggregatesAfterEveryWait ==
  Phase \in {"Aggregating", "Rendered"} =>
    /\ running = {}
    /\ nWorkers = 0
    /\ admin => \A k \in 1..5 : Requested(k) => Categories[k] \in DOMAIN results

\* C11 as stated: every step of a run stays in its phase or moves to the
\* next one of Idle, Submitting, Draining, Aggregating, Rendered (or the
\* process ends), and aggregation follows the Wait of every pool.
C11_PhasesInOrder ==
  [][/\ \/ Phase' = Phase
        \/ Phase' = "Dead"
        \/ PhaseRank(Phase') = PhaseRank(Phase) + 1
     /\ AggregatesAfterEveryWait']_vars

\* C11 as amended: Submitting and Draining are passed once per requested
\* category, so Draining is followed by the Submitting of the next category
\* or by Aggregating; a run without an admin profile goes from Idle to
\* Aggregating; no other step changes the phase, and aggregation follows the
\* Wait of every pool.
C11_PhasesPerCategory ==
  [][/\ \/ Phase' = Phase
        \/ Phase' = "Dead"
        \/ <<Phase, Phase'>> \in
             {<<"Idle", "Submitting">>, <<"Submitting", "Draining">>,
              <<"Draining", "Submitting">>, <<"Draining", "Aggregating">>,
              <<"Aggregating", "Rendered">>}
        \/ (Phase = "Idle" /\ Phase' = "Aggregating" /\ ~admin)
     /\ AggregatesAfterEveryWait']_vars

\* C11 witness: a report rendered from two categories, each submitted and
\* drained in turn.
C11_Witness ==
  /\ Phase = "Rendered"
  /\ Cardinality(DOMAIN results) = 2
  /\ goCalls = 2

\* ---------------------------------------------------------------- C16
LastResult == agg[Len(agg)]

\* C16: no remote call is retried.  Within one task each remote step is
\* called at most once, a later step is called only when every earlier one
\* succeeded, the Result has Success = TRUE exactly when every step of the
\* task was called and succeeded, and no task leaves a second Result.
C16_NoRetryFailFast ==
  /\ \A m, n \in DOMAIN agg : m # n => agg[m].task # agg[n].task
  /\ remoteCalls # <<>> =>
       /\ agg # <<>>
       /\ Len(remoteCalls) <= Steps(cat)
       /\ \A m, n \in DOMAIN remoteCalls :
            m # n => remoteCalls[m].name # remoteCalls[n].name
       /\ \A n \in 2..Len(remoteCalls) : remoteCalls[n - 1].ok
       /\ LastResult.Success <=>
            /\ Len(remoteCalls) = Steps(cat)
            /\ \A n \in DOMAIN remoteCalls : remoteCalls[n].ok

\* A task whose first step succeeded and whose second step failed.
C16_Witness ==
  /\ Len(remoteCalls) = 2
  /\ remoteCalls[1].ok
  /\ ~remoteCalls[2].ok
  /\ ~LastResult.Success

\* ---------------------------------------------------------------- C17
\* C17: the Duration of a Result spans only the execution of its task, from
\* the instant a worker received it to the instant it returns; the time
\* workerPool.Go waited for a worker is never part of it.
C17_DurationSpansExecution ==
  [][/\ \A t \in running' : t.called <= t.received /\ t.taskStart = t.received
     /\ \A t \in running \ running' :
          Len(agg') = Len(agg) + 1 =>
            agg'[Len(agg')].Duration = (now - t.received) * TickMicros]_vars

\* A task that waited in workerPool.Go for a worker is running, after an
\* earlier task has returned.
C17_Witness ==
  /\ agg # <<>>
  /\ \E t \in running : t.called < t.received /\ t.taskStart = t.received

\* ---------------------------------------------------------------- C19
\* The index (from 0) of the element each call of workerPool.Go of one
\* operation is made for, in order: p calls per suitable element.
RECURSIVE Submissions(_, _, _)
Submissions(its, p, k) ==
  IF k >= Len(its) THEN <<>>
  ELSE (IF Suitable(its[k + 1]) THEN [n \in 1..p |-> k] ELSE <<>>) \o
       Submissions(its, p, k + 1)

\* C19: every task uses the element of the iteration that submitted it, at
\* every moment of its execution, wherever the loop has got to since.
C19_TaskHoldsOwnItem ==
  \A t \in running :
    LET n == t.id - (goCalls - submitted)
    IN  /\ n \in 1..Len(Submissions(items, per, 0))
        /\ t.index = Submissions(items, per, 0)[n]
        /\ t.item = items[t.index + 1]

\* A task is running while the loop is at a later, different element.
C19_Witness ==
  \E t \in running :
    /\ pc \in {"go", "send"}
    /\ t.index < i
    /\ items[i + 1] # t.item

\* ---------------------------------------------------------------- C14
\* C14: for every non-empty sample the row has
\* min <= p90 <= p95 <= p99 <= max and min <= median <= max.
C14_PercentilesMonotone ==
  \A n \in DOMAIN rows :
    rows[n].Count > 0 =>
      /\ rows[n].Min <= rows[n].P90
      /\ rows[n].P90 <= rows[n].P95
      /\ rows[n].P95 <= rows[n].P99
      /\ rows[n].P99 <= rows[n].Max
      /\ rows[n].Min <= rows[n].Median
      /\ rows[n].Median <= rows[n].Max

\* A row of a sample of 10 whose p90 is a sample value (whole index) below
\* its p95, a mean of two, itself below the maximum.
C14_Witness ==
  \E n \in DOMAIN rows :
    /\ rows[n].Count = 10
    /\ rows[n].P90 < rows[n].P95
    /\ rows[n].P99 < rows[n].Max

\* ---------------------------------------------------------------- C12
\* ceil(n / 10), by its definition.
Interval(n) == CHOOSE m \in 0..n : 10 * m >= n /\ 10 * (m - 1) < n

\* The multiples of m in 1..n, in order.
MultiplesUpTo(m, n) == [k \in 1..(n \div m) |-> k * m]

\* C12: in the single-loop operations (createDomains, updateLimits,
\* createNetwork) over a slice of N elements, with M = ceil(N / 10), the
\* progress lines are emitted exactly at the 1-based indices that are
\* multiples of M, each reporting its index: floor(N / M) lines when the
\* loop is through.  For N = 47, M = 5 and the 9 lines are 5, 10, ..., 45.
C12_ProgressLinesOfSingleLoop ==
  cat \in {1, 2, 3} =>
    /\ progressMarker = Interval(Len(items))
    /\ Len(items) = 0 => progress = <<>>
    /\ Len(items) > 0 =>
         /\ submitted = i
         /\ progress = MultiplesUpTo(Interval(Len(items)), submitted)
         /\ pc = "wait" =>
              Len(progress) = Len(items) \div Interval(Len(items))
    /\ (Len(items) = 47 /\ pc = "wait") =>
         /\ progressMarker = 5
         /\ progress = <<5, 10, 15, 20, 25, 30, 35, 40, 45>>

\* A single loop over 47 elements is through.
C12_Witness ==
  /\ cat \in {1, 2, 3}
  /\ pc = "wait"
  /\ Len(items) = 47
  /\ Len(progress) = 9

\* ---------------------------------------------------------------- C13
\* C13: an operation over no element is tolerated.  The modulo of the
\* progress line is evaluated only in an iteration that submits a task, and
\* there the interval is at least 1; an operation whose total is 0 (an
\* empty slice, or an inner bound of 0) submits nothing and returns no
\* Result.
C13_EmptyOperationTolerated ==
  /\ (pc = "loop" /\ i < Len(items)) => progressMarker >= 1
  /\ (InPool /\ Len(items) * per = 0) =>
       /\ progressMarker = 0
       /\ pc # "loop" \/ i = Len(items)
       /\ submitted = 0
       /\ running = {}
       /\ agg = <<>>
  /\ WaitReturned =>
       (submitted = 0 => results[Categories[cat - 1]] = <<>>)

\* createVms or createVolumes over listed elements with an inner bound of 0
\* is in its Wait.
C13_Witness ==
  /\ pc = "wait"
  /\ cat \in {4, 5}
  /\ Len(items) > 0
  /\ per = 0
  /\ progressMarker = 0

\* ---------------------------------------------------------------- C15
\* C15: in every operation, the nested loops of createVms and createVolumes
\* included, a progress line is emitted exactly when the running count of
\* tasks submitted so far (this one included) is a multiple of the interval,
\* and the number it reports is that count.
C15_ProgressAtSubmissionCount ==
  progressMarker > 0 => progress = MultiplesUpTo(progressMarker, submitted)

\* ---------------------------------------------------------------- C18
\* The categories of map in the order createResources stored them.
InsertionOrder(map) == SelectSeq(Categories, LAMBDA c : c \in DOMAIN map)

\* C18: generateReport visits the categories in the order they were stored,
\* so the rows of the table are in the same order on every run over the
\* same results.
C18_RowsInInsertionOrder ==
  TableBuilt => rows = ReportRows(results, InsertionOrder(results))

\* ---------------------------------------------------------------- C20
\* The create stage has begun.
CreateRunBegun ==
  flags.create /\ pc \notin {"main", "readConfigurations", "exited"}

\* C20: with no timeout anywhere, a create run with at least one worker
\* whose tasks all end goes on until its report is rendered: it never stops
\* for good before that.
C20_CreateRunReachesRendering ==
  (CreateRunBegun /\ flags.workers >= 1) => (ENABLED Next \/ ReportRendered)

\* ---------------------------------------------------------------- C21
\* The category whose operation submits tasks for elements of this kind.
CategoryOf(item) ==
  CASE item = "domain" -> 1
    [] item = "account" -> 2
    [] item = "subdomain" -> 3
    [] item \in {"network", "orphan"} -> 4
    [] item \in {"Running", "Stopped", "Error"} -> 5

\* C21: the categories are provisioned one after another in the order
\* domain, limits, network, vm, volume, each on its own fresh pool.  While a
\* pool is in use its category is requested and the Wait of every earlier
\* requested category has returned (its Results are stored), nothing is
\* stored for a later one, every task executing was submitted to the
\* current pool for the current category, nothing is submitted once Wait
\* is called (which happens once), and no task executes between two
\* operations.
C21_OneCategoryAtATime ==
  /\ InPool =>
       /\ Requested(cat)
       /\ \A k \in 1..(cat - 1) :
            Requested(k) => Categories[k] \in DOMAIN results
  /\ DOMAIN results \subseteq {Categories[k] : k \in 1..(cat - 1)}
  /\ \A t \in running : t.id \in PoolTaskIds /\ CategoryOf(t.item) = cat
  /\ closed => pc \in {"wait", "crashed"}
  /\ ~InPool => (running = {} /\ nWorkers = 0 /\ ~closed)

\* A task of the second requested category executes, the Results of the
\* first one being stored.
C21_Witness ==
  /\ running # {}
  /\ \E k \in 1..(cat - 1) :
       /\ Requested(k)
       /\ Categories[k] \in DOMAIN results
       /\ results[Categories[k]] # <<>>

\* ---------------------------------------------------------------- C22
\* How many of the first k elements of its are VMs in state Running or
\* Stopped.
RunningOrStopped(its, k) ==
  Cardinality({n \in 1..k : its[n] \in {"Running", "Stopped"}})

\* C22: createVolumes submits exactly numVolumesPerVM tasks for each listed
\* VM in state Running or Stopped and none for a VM in another state, so it
\* returns (number of Running or Stopped VMs) x numVolumesPerVM Results; the
\* VMs of a listing that failed are not among those it ranges over.
C22_VolumesPerSuitableVm ==
  /\ (cat = 5 /\ InPool) =>
       /\ Len(items) = listed.ok
       /\ \A t \in running : t.item \in {"Running", "Stopped"}
       /\ submitted = RunningOrStopped(items, i) * per + (j - 1)
       /\ Len(agg) + Cardinality(running) = submitted
       /\ (pc = "wait" /\ nWorkers = 0) =>
            Len(agg) = RunningOrStopped(items, Len(items)) * per
  /\ "volume" \in DOMAIN results => Len(results["volume"]) = submitted

\* createVolumes has made two volumes for the one VM kept, a listing that
\* failed having returned another, and its Wait is about to return.
C22_Witness ==
  /\ cat = 5
  /\ pc = "wait"
  /\ nWorkers = 0
  /\ listed.failed > 0
  /\ per = 2
  /\ Len(agg) = 2

====
